---- MODULE Spec2Model ----
(***************************************************************************)
(* LocalBlockchain (crates/rethnet_evm/src/blockchain/local.rs): the chain *)
(* facade that builds a genesis block, inserts validated blocks, reserves  *)
(* sparse block ranges and reverts, on top of the reservable sparse store. *)
(*                                                                         *)
(* Option<T> is a sequence: <<>> is None and <<v>> is Some(v).             *)
(* U256 quantities are unbounded integers; every value the model reaches   *)
(* stays far below 2^256.                                                  *)
(***************************************************************************)
EXTENDS Integers, Sequences, FiniteSets, TLC

VARIABLES created, storage, chain_id, spec_id, last_op

vars == <<created, storage, chain_id, spec_id, last_op>>

\* Highest block number the model lets the chain grow to.
MaxTail == 2

None == <<>>
Some(v) == <<v>>
IsSome(o) == o # <<>>
Unwrap(o) == o[1]
Range(seq) == {seq[i] : i \in 1..Len(seq)}

(***************************************************************************)
(* Protocol versions, ordered as revm::primitives::SpecId.                 *)
(***************************************************************************)
LONDON == 12
MERGE == 15
SHANGHAI == 16
BERLIN == LONDON - 1
CANCUN == SHANGHAI + 1
SpecIds == {BERLIN, LONDON, MERGE, SHANGHAI}
\* Versions the constructor is exercised with.
AllSpecIds == {BERLIN, LONDON, LONDON + 1, MERGE, SHANGHAI, CANCUN}

(***************************************************************************)
(* Input domains.                                                          *)
(***************************************************************************)
ChainIds == {31337}
GasLimits == {30}
GenesisTimestamps == {None, Some(10)}
\* Readings of the system clock in seconds since the Unix epoch; a negative
\* one is a clock set before the epoch, for which duration_since fails.
SystemTimes == {-5, 20, 21}
Prevrandaos == {None, Some(0), Some(7)}
BaseFees == {None, Some(0), Some(9)}
StateRoots == {5}
StateErrors == {"E1", "E2"}
\* Result<T, StateErrorT> of the state handle's calls.
StateOk(v) == [ok |-> TRUE, value |-> v, err |-> ""]
StateFail(e) == [ok |-> FALSE, value |-> 0, err |-> e]
CheckpointResults == {StateOk(0)} \cup {StateFail(e) : e \in StateErrors}
StateRootResults == {StateOk(r) : r \in StateRoots} \cup {StateFail(e) : e \in StateErrors}
TxHashes == {1, 2}
TxLists == {<<>>, <<1>>, <<2, 1>>}
Difficulties == {0, 2}
Intervals == {0, 12}

(***************************************************************************)
(* Fixed header values.                                                    *)
(***************************************************************************)
ZeroHash == <<0>>
KECCAK_NULL_RLP == "KECCAK_NULL_RLP"
EXTRA_DATA == <<49, 50, 52>>
B64Zero == <<0, 0, 0, 0, 0, 0, 0, 0>>
GenesisNonce == <<66, 0, 0, 0, 0, 0, 0, 0>>

(***************************************************************************)
(* Block::new: a block is its header fields plus the transaction list and  *)
(* the optional withdrawals list; the withdrawals root is present exactly  *)
(* when the list is.                                                       *)
(***************************************************************************)
NewBlock(h, transactions, withdrawals) ==
    [number |-> h.number,
     parent_hash |-> h.parent_hash,
     state_root |-> h.state_root,
     receipts_root |-> h.receipts_root,
     difficulty |-> h.difficulty,
     gas_limit |-> h.gas_limit,
     gas_used |-> h.gas_used,
     timestamp |-> h.timestamp,
     extra_data |-> h.extra_data,
     mix_hash |-> h.mix_hash,
     nonce |-> h.nonce,
     base_fee_per_gas |-> h.base_fee,
     withdrawals_root |-> IF IsSome(withdrawals) THEN Some(Unwrap(withdrawals)) ELSE None,
     transactions |-> transactions,
     receipts |-> <<>>,
     withdrawals |-> withdrawals]

\* PartialHeader::default()
DefaultHeader ==
    [number |-> 0, parent_hash |-> ZeroHash, state_root |-> 0,
     receipts_root |-> KECCAK_NULL_RLP, difficulty |-> 0, gas_limit |-> 0,
     gas_used |-> 0, timestamp |-> 0, extra_data |-> <<>>, mix_hash |-> 0,
     nonce |-> B64Zero, base_fee |-> None]

\* The block hash: an injective digest of the header, in header field order.
Hash(b) ==
    <<b.parent_hash, b.state_root, b.transactions, b.receipts_root,
      b.difficulty, b.number, b.gas_limit, b.gas_used, b.timestamp,
      b.extra_data, b.mix_hash, b.nonce, b.base_fee_per_gas,
      b.withdrawals_root>>

(***************************************************************************)
(* ReservableSparseBlockchainStorage: committed blocks with their indices, *)
(* the reserved ranges, and the tail number.                               *)
(***************************************************************************)
Restrict(f, S) == [x \in S |-> f[x]]

EmptyStorage ==
    [number_to_block |-> <<>>,
     hash_to_block |-> <<>>,
     hash_to_total_difficulty |-> <<>>,
     transaction_hash_to_block |-> <<>>,
     reservations |-> <<>>,
     last_block_number |-> 0]

\* insert(block, total_difficulty): records the block and updates every index.
storage_insert_block_unchecked(s, block, total_difficulty) ==
    [s EXCEPT
        !.number_to_block = (block.number :> block) @@ @,
        !.hash_to_block = (Hash(block) :> block) @@ @,
        !.hash_to_total_difficulty = (Hash(block) :> total_difficulty) @@ @,
        !.transaction_hash_to_block =
            [h \in Range(block.transactions) |-> block] @@ @,
        !.last_block_number = block.number]

\* seed(genesis, total_difficulty)
storage_with_block(block, total_difficulty) ==
    storage_insert_block_unchecked(EmptyStorage, block, total_difficulty)

\* The reserved range covering number n, if any.
ReservationOf(s, n) ==
    LET idx == {i \in 1..Len(s.reservations) :
                    /\ s.reservations[i].first_number <= n
                    /\ n <= s.reservations[i].last_number}
    IN IF idx = {} THEN None ELSE Some(s.reservations[CHOOSE i \in idx : TRUE])

\* The virtual block number n of reserved range r.
ReservedBlock(r, n) ==
    NewBlock([DefaultHeader EXCEPT
                 !.number = n,
                 !.state_root = r.previous_state_root,
                 !.base_fee = r.previous_base_fee_per_gas,
                 !.difficulty = r.difficulty,
                 !.timestamp = r.previous_timestamp
                                 + r.interval * (n - r.first_number + 1)],
             <<>>,
             IF r.spec_id >= SHANGHAI THEN Some(<<>>) ELSE None)

ReservedTotalDifficulty(r, n) ==
    r.previous_total_difficulty + (n - r.first_number + 1) * r.difficulty

storage_block_by_number(s, n) ==
    IF n \in DOMAIN s.number_to_block THEN Some(s.number_to_block[n])
    ELSE IF n <= s.last_block_number /\ IsSome(ReservationOf(s, n))
         THEN Some(ReservedBlock(Unwrap(ReservationOf(s, n)), n))
         ELSE None

\* Numbers of the virtual blocks whose hash is `hash`.
ReservedNumbersWithHash(s, hash) ==
    {n \in 0..s.last_block_number :
        /\ n \notin DOMAIN s.number_to_block
        /\ IsSome(ReservationOf(s, n))
        /\ Hash(ReservedBlock(Unwrap(ReservationOf(s, n)), n)) = hash}

storage_block_by_hash(s, hash) ==
    IF hash \in DOMAIN s.hash_to_block THEN Some(s.hash_to_block[hash])
    ELSE IF ReservedNumbersWithHash(s, hash) # {}
         THEN LET n == CHOOSE k \in ReservedNumbersWithHash(s, hash) : TRUE
              IN Some(ReservedBlock(Unwrap(ReservationOf(s, n)), n))
         ELSE None

storage_block_by_transaction_hash(s, transaction_hash) ==
    IF transaction_hash \in DOMAIN s.transaction_hash_to_block
    THEN Some(s.transaction_hash_to_block[transaction_hash])
    ELSE None

storage_total_difficulty_by_hash(s, hash) ==
    IF hash \in DOMAIN s.hash_to_total_difficulty
    THEN Some(s.hash_to_total_difficulty[hash])
    ELSE IF ReservedNumbersWithHash(s, hash) # {}
         THEN LET n == CHOOSE k \in ReservedNumbersWithHash(s, hash) : TRUE
              IN Some(ReservedTotalDifficulty(Unwrap(ReservationOf(s, n)), n))
         ELSE None

\* reserve(count, interval, parent_base_fee, parent_state_root,
\*         parent_total_difficulty, protocol_version), count > 0.
storage_reserve_blocks(s, additional, interval, previous_base_fee, previous_state_root, previous_total_difficulty, spec) ==
    LET parent == Unwrap(storage_block_by_number(s, s.last_block_number))
        reservation ==
            [first_number |-> s.last_block_number + 1,
             last_number |-> s.last_block_number + additional,
             interval |-> interval,
             previous_base_fee_per_gas |-> previous_base_fee,
             previous_state_root |-> previous_state_root,
             previous_total_difficulty |-> previous_total_difficulty,
             previous_timestamp |-> parent.timestamp,
             difficulty |-> IF spec >= MERGE THEN 0 ELSE parent.difficulty,
             spec_id |-> spec]
    IN [s EXCEPT
           !.reservations = Append(@, reservation),
           !.last_block_number = @ + additional]

RECURSIVE TruncateReservations(_, _)
TruncateReservations(rs, n) ==
    IF rs = <<>> THEN <<>>
    ELSE LET r == Head(rs)
             rest == TruncateReservations(Tail(rs), n)
         IN IF r.last_number <= n THEN <<r>> \o rest
            ELSE IF r.first_number <= n
                 THEN <<[r EXCEPT !.last_number = n]>> \o rest
                 ELSE rest

\* revert(target_number): the success flag and the store afterwards.
storage_revert_to_block(s, n) ==
    IF n > s.last_block_number
    THEN [ok |-> FALSE, storage |-> s]
    ELSE LET kept == {k \in DOMAIN s.number_to_block : k <= n}
             removed == {s.number_to_block[k] :
                            k \in DOMAIN s.number_to_block \ kept}
             removed_hashes == {Hash(b) : b \in removed}
             removed_txs == UNION {Range(b.transactions) : b \in removed}
         IN [ok |-> TRUE,
             storage |->
               [number_to_block |-> Restrict(s.number_to_block, kept),
                hash_to_block |->
                    Restrict(s.hash_to_block,
                             DOMAIN s.hash_to_block \ removed_hashes),
                hash_to_total_difficulty |->
                    Restrict(s.hash_to_total_difficulty,
                             DOMAIN s.hash_to_total_difficulty \ removed_hashes),
                transaction_hash_to_block |->
                    Restrict(s.transaction_hash_to_block,
                             DOMAIN s.transaction_hash_to_block \ removed_txs),
                reservations |-> TruncateReservations(s.reservations, n),
                last_block_number |-> n]]

(***************************************************************************)
(* Results of the facade's operations.                                     *)
(***************************************************************************)
Ok == [kind |-> "Ok", error |-> "", actual |-> 0, expected |-> 0, source |-> ""]
Err(e) == [kind |-> "Err", error |-> e, actual |-> 0, expected |-> 0, source |-> ""]
StateErr(e) == [kind |-> "Err", error |-> "State", actual |-> 0, expected |-> 0, source |-> e]
InvalidBlockNumber(actual, expected) ==
    [kind |-> "Err", error |-> "InvalidBlockNumber",
     actual |-> actual, expected |-> expected, source |-> ""]
Panic(msg) == [kind |-> "Panic", error |-> msg, actual |-> 0, expected |-> 0, source |-> ""]

\* The call last made: its name, its arguments, the state handle's answers
\* and the clock reading if the clock was read (new), the block returned on
\* success (insert_block) and its result.
NoOp ==
    [op |-> "none", number |-> 0, interval |-> 0, spec_id |-> 0,
     timestamp |-> None, clock |-> None,
     prevrandao |-> None, base_fee |-> None, withdrawals_root |-> None,
     checkpoint |-> None, state_root |-> None, state_ok |-> TRUE,
     calls |-> <<>>, returned |-> None, result |-> Ok]

(***************************************************************************)
(* validate_next_block(spec_id, last_block, next_block)                    *)
(***************************************************************************)
validate_next_block(spec, last_block, next_block) ==
    IF next_block.number # last_block.number + 1
    THEN InvalidBlockNumber(next_block.number, last_block.number + 1)
    ELSE IF next_block.parent_hash # Hash(last_block)
    THEN Err("InvalidParentHash")
    ELSE IF spec >= SHANGHAI /\ ~IsSome(next_block.withdrawals_root)
    THEN Err("MissingWithdrawals")
    ELSE Ok

(***************************************************************************)
(* LocalBlockchain::with_genesis_block_unchecked                           *)
(***************************************************************************)
with_genesis_block_unchecked(chain, spec, genesis_block) ==
    [storage |-> storage_with_block(genesis_block, genesis_block.difficulty),
     chain_id |-> chain,
     spec_id |-> spec]

\* A direct call of the public with_genesis_block_unchecked: whatever the
\* genesis block, the chain is constructed.
with_genesis_block_unchecked_call(chain, spec, genesis_block) ==
    LET r == with_genesis_block_unchecked(chain, spec, genesis_block)
    IN /\ ~created
       /\ created' = TRUE
       /\ storage' = r.storage
       /\ chain_id' = r.chain_id
       /\ spec_id' = r.spec_id
       /\ last_op' = [NoOp EXCEPT
                         !.op = "with_genesis_block_unchecked",
                         !.spec_id = spec,
                         !.number = genesis_block.number,
                         !.withdrawals_root = genesis_block.withdrawals_root,
                         !.result = Ok]

(***************************************************************************)
(* LocalBlockchain::new.  The header fields are evaluated in source order: *)
(* checkpoint, state_root, timestamp, mix_hash (prevrandao), base_fee; the *)
(* first failure is the result.  Without a timestamp the clock is read,    *)
(* and a reading before the epoch fails the expect.  `calls` lists the     *)
(* state handle's calls made.                                              *)
(***************************************************************************)
\* The genesis block with the withdrawals list keyed to the Merge instead
\* of Shanghai.
GenesisBlock_withdrawals_at_merge(spec, state_root, gas_limit, timestamp, now, prevrandao, base_fee) ==
    NewBlock([DefaultHeader EXCEPT
                 !.state_root = state_root,
                 !.receipts_root = KECCAK_NULL_RLP,
                 !.difficulty = IF spec >= MERGE THEN 0 ELSE 1,
                 !.number = 0,
                 !.gas_limit = gas_limit,
                 !.gas_used = 0,
                 !.timestamp = IF IsSome(timestamp) THEN Unwrap(timestamp) ELSE now,
                 !.extra_data = EXTRA_DATA,
                 !.mix_hash = IF spec >= MERGE THEN Unwrap(prevrandao) ELSE 0,
                 !.nonce = IF spec >= MERGE THEN B64Zero ELSE GenesisNonce,
                 !.base_fee = IF spec >= LONDON THEN Some(Unwrap(base_fee)) ELSE None],
             <<>>,
             IF spec >= MERGE THEN Some(<<>>) ELSE None)

GenesisBlock(spec, state_root, gas_limit, timestamp, now, prevrandao, base_fee) ==
    NewBlock([DefaultHeader EXCEPT
                 !.state_root = state_root,
                 !.receipts_root = KECCAK_NULL_RLP,
                 !.difficulty = IF spec >= MERGE THEN 0 ELSE 1,
                 !.number = 0,
                 !.gas_limit = gas_limit,
                 !.gas_used = 0,
                 !.timestamp = IF IsSome(timestamp) THEN Unwrap(timestamp) ELSE now,
                 !.extra_data = EXTRA_DATA,
                 !.mix_hash = IF spec >= MERGE THEN Unwrap(prevrandao) ELSE 0,
                 !.nonce = IF spec >= MERGE THEN B64Zero ELSE GenesisNonce,
                 !.base_fee = IF spec >= LONDON THEN Some(Unwrap(base_fee)) ELSE None],
             <<>>,
             IF spec >= SHANGHAI THEN Some(<<>>) ELSE None)

\* The outcome of new once the state handle's calls have succeeded, with the
\* checks of prevrandao and base fee as switches.
new_after_state(state_root, chain, spec, gas_limit, timestamp, now, prevrandao, base_fee, base_fee_first, check_base_fee) ==
    LET missing_prevrandao == spec >= MERGE /\ ~IsSome(prevrandao)
        missing_base_fee == spec >= LONDON /\ ~IsSome(base_fee)
        calls == <<"checkpoint", "state_root">>
    IN IF ~IsSome(timestamp) /\ now < 0
       THEN [result |-> Panic("Current time must be after unix epoch"),
             chain |-> None, calls |-> calls]
       ELSE IF missing_base_fee /\ base_fee_first
       THEN [result |-> Err("MissingBaseFee"), chain |-> None, calls |-> calls]
       ELSE IF missing_prevrandao
       THEN [result |-> Err("MissingPrevrandao"), chain |-> None, calls |-> calls]
       ELSE IF missing_base_fee /\ check_base_fee
       THEN [result |-> Err("MissingBaseFee"), chain |-> None, calls |-> calls]
       ELSE [result |-> Ok,
             chain |-> Some(with_genesis_block_unchecked(chain, spec,
                 NewBlock([DefaultHeader EXCEPT
                     !.state_root = state_root.value,
                     !.difficulty = IF spec >= MERGE THEN 0 ELSE 1,
                     !.gas_limit = gas_limit,
                     !.timestamp = IF IsSome(timestamp) THEN Unwrap(timestamp) ELSE now,
                     !.extra_data = EXTRA_DATA,
                     !.mix_hash = IF spec >= MERGE THEN Unwrap(prevrandao) ELSE 0,
                     !.nonce = IF spec >= MERGE THEN B64Zero ELSE GenesisNonce,
                     !.base_fee = IF spec >= LONDON THEN base_fee ELSE None],
                   <<>>,
                   IF spec >= SHANGHAI THEN Some(<<>>) ELSE None))),
             calls |-> calls]

\* new taking an absent base fee as it comes, without MissingBaseFee.
new_result_base_fee_optional(checkpoint, state_root, chain, spec, gas_limit, timestamp, now, prevrandao, base_fee) ==
    IF ~checkpoint.ok
    THEN [result |-> StateErr(checkpoint.err), chain |-> None,
          calls |-> <<"checkpoint">>]
    ELSE IF ~state_root.ok
    THEN [result |-> StateErr(state_root.err), chain |-> None,
          calls |-> <<"checkpoint", "state_root">>]
    ELSE new_after_state(state_root, chain, spec, gas_limit, timestamp, now,
                         prevrandao, base_fee, FALSE, FALSE)

\* new checking prevrandao and base fee before it calls the state handle.
new_result_checks_first(checkpoint, state_root, chain, spec, gas_limit, timestamp, now, prevrandao, base_fee) ==
    IF spec >= MERGE /\ ~IsSome(prevrandao)
    THEN [result |-> Err("MissingPrevrandao"), chain |-> None, calls |-> <<>>]
    ELSE IF spec >= LONDON /\ ~IsSome(base_fee)
    THEN [result |-> Err("MissingBaseFee"), chain |-> None, calls |-> <<>>]
    ELSE IF ~checkpoint.ok
    THEN [result |-> StateErr(checkpoint.err), chain |-> None,
          calls |-> <<"checkpoint">>]
    ELSE IF ~state_root.ok
    THEN [result |-> StateErr(state_root.err), chain |-> None,
          calls |-> <<"checkpoint", "state_root">>]
    ELSE new_after_state(state_root, chain, spec, gas_limit, timestamp, now,
                         prevrandao, base_fee, FALSE, TRUE)

new_result(checkpoint, state_root, chain, spec, gas_limit, timestamp, now, prevrandao, base_fee) ==
    IF ~checkpoint.ok
    THEN [result |-> StateErr(checkpoint.err), chain |-> None,
          calls |-> <<"checkpoint">>]
    ELSE IF ~state_root.ok
    THEN [result |-> StateErr(state_root.err), chain |-> None,
          calls |-> <<"checkpoint", "state_root">>]
    ELSE IF ~IsSome(timestamp) /\ now < 0
    THEN [result |-> Panic("Current time must be after unix epoch"),
          chain |-> None, calls |-> <<"checkpoint", "state_root">>]
    ELSE IF spec >= MERGE /\ ~IsSome(prevrandao)
    THEN [result |-> Err("MissingPrevrandao"), chain |-> None,
          calls |-> <<"checkpoint", "state_root">>]
    ELSE IF spec >= LONDON /\ ~IsSome(base_fee)
    THEN [result |-> Err("MissingBaseFee"), chain |-> None,
          calls |-> <<"checkpoint", "state_root">>]
    ELSE [result |-> Ok,
          chain |-> Some(with_genesis_block_unchecked(chain, spec,
                        GenesisBlock(spec, state_root.value, gas_limit,
                                     timestamp, now, prevrandao, base_fee))),
          calls |-> <<"checkpoint", "state_root">>]

new(checkpoint, state_root, chain, spec, gas_limit, timestamp, now, prevrandao, base_fee) ==
    LET r == new_result(checkpoint, state_root, chain, spec, gas_limit,
                        timestamp, now, prevrandao, base_fee)
    IN /\ ~created
       /\ created' = IsSome(r.chain)
       /\ storage' = IF IsSome(r.chain) THEN Unwrap(r.chain).storage ELSE storage
       /\ chain_id' = IF IsSome(r.chain) THEN Unwrap(r.chain).chain_id ELSE chain_id
       /\ spec_id' = IF IsSome(r.chain) THEN Unwrap(r.chain).spec_id ELSE spec_id
       /\ last_op' = [NoOp EXCEPT
                         !.op = "new", !.spec_id = spec,
                         !.timestamp = timestamp,
                         !.clock = IF checkpoint.ok /\ state_root.ok
                                      /\ ~IsSome(timestamp)
                                   THEN Some(now) ELSE None,
                         !.prevrandao = prevrandao, !.base_fee = base_fee,
                         !.checkpoint = Some(checkpoint),
                         !.state_root = Some(state_root),
                         !.state_ok = checkpoint.ok /\ state_root.ok,
                         !.calls = r.calls, !.result = r.result]

(***************************************************************************)
(* LocalBlockchain::with_genesis_block: the number check comes first, then *)
(* the check for withdrawals missing at Shanghai or later.                 *)
(***************************************************************************)
with_genesis_block_result(chain, spec, genesis_block) ==
    IF genesis_block.number # 0
    THEN [result |-> InvalidBlockNumber(genesis_block.number, 0), chain |-> None]
    ELSE IF spec >= SHANGHAI /\ ~IsSome(genesis_block.withdrawals_root)
    THEN [result |-> Err("MissingWithdrawals"), chain |-> None]
    ELSE [result |-> Ok,
          chain |-> Some(with_genesis_block_unchecked(chain, spec, genesis_block))]

with_genesis_block(chain, spec, genesis_block) ==
    LET r == with_genesis_block_result(chain, spec, genesis_block)
    IN /\ ~created
       /\ created' = IsSome(r.chain)
       /\ storage' = IF IsSome(r.chain) THEN Unwrap(r.chain).storage ELSE storage
       /\ chain_id' = IF IsSome(r.chain) THEN Unwrap(r.chain).chain_id ELSE chain_id
       /\ spec_id' = IF IsSome(r.chain) THEN Unwrap(r.chain).spec_id ELSE spec_id
       /\ last_op' = [NoOp EXCEPT
                         !.op = "with_genesis_block", !.spec_id = spec,
                         !.number = genesis_block.number,
                         !.withdrawals_root = genesis_block.withdrawals_root,
                         !.result = r.result]

(***************************************************************************)
(* impl Blockchain for LocalBlockchain (reads).                            *)
(***************************************************************************)
\* block_by_hash consulting the index of the committed blocks only.
block_by_hash_committed_only(hash) ==
    IF hash \in DOMAIN storage.hash_to_block
    THEN Some(storage.hash_to_block[hash]) ELSE None

block_by_hash(hash) == storage_block_by_hash(storage, hash)
block_by_number(number) == storage_block_by_number(storage, number)
block_by_transaction_hash(transaction_hash) ==
    storage_block_by_transaction_hash(storage, transaction_hash)
\* block_supports_spec answering for the numbers up to the tail only.
block_supports_spec_known_numbers(number, spec) ==
    number <= storage.last_block_number /\ spec <= spec_id

block_supports_spec(number, spec) == spec <= spec_id
last_block_number == storage.last_block_number
\* last_block looking among the committed blocks only.
last_block_committed_only(s) ==
    IF s.last_block_number \in DOMAIN s.number_to_block
    THEN Some(s.number_to_block[s.last_block_number]) ELSE None

\* None stands for the failed expect("Block must exist").
last_block(s) == storage_block_by_number(s, s.last_block_number)
total_difficulty_by_hash(hash) == storage_total_difficulty_by_hash(storage, hash)
\* BlockHashRef::block_hash: None stands for Err(UnknownBlockNumber).
block_hash(number) ==
    IF IsSome(block_by_number(number))
    THEN Some(Hash(Unwrap(block_by_number(number))))
    ELSE None

(***************************************************************************)
(* impl BlockchainMut for LocalBlockchain (writes).                        *)
(***************************************************************************)
\* insert_block validating against the highest committed block, overlooking
\* a reserved range above it.
insert_block_result_committed_head(s, spec, block) ==
    LET committed == DOMAIN s.number_to_block
        head == s.number_to_block[CHOOSE n \in committed :
                                     \A m \in committed : m <= n]
        valid == validate_next_block(spec, head, block)
        previous_total_difficulty ==
            storage_total_difficulty_by_hash(s, Hash(head))
    IN IF valid.kind # "Ok"
       THEN [result |-> valid, storage |-> s]
       ELSE [result |-> Ok,
             storage |-> storage_insert_block_unchecked(s, block,
                 Unwrap(previous_total_difficulty) + block.difficulty)]

\* insert_block recording the candidate's own difficulty as its total
\* difficulty, without adding the head's.
insert_block_result_own_difficulty(s, spec, block) ==
    LET head == Unwrap(last_block(s))
        valid == validate_next_block(spec, head, block)
    IN IF valid.kind # "Ok"
       THEN [result |-> valid, storage |-> s]
       ELSE [result |-> Ok,
             storage |-> storage_insert_block_unchecked(s, block,
                                                        block.difficulty)]

\* insert_block storing the candidate first and validating it afterwards.
insert_block_result_insert_then_validate(s, spec, block) ==
    LET head == Unwrap(last_block(s))
        valid == validate_next_block(spec, head, block)
        stored == storage_insert_block_unchecked(s, block,
                      Unwrap(storage_total_difficulty_by_hash(s, Hash(head)))
                          + block.difficulty)
    IN [result |-> valid, storage |-> stored]

\* insert_block validating the parent hash and the withdrawals of the
\* candidate but not its number.
insert_block_result_any_number(s, spec, block) ==
    LET head == Unwrap(last_block(s))
    IN IF block.parent_hash # Hash(head)
       THEN [result |-> Err("InvalidParentHash"), storage |-> s]
       ELSE IF spec >= SHANGHAI /\ ~IsSome(block.withdrawals_root)
       THEN [result |-> Err("MissingWithdrawals"), storage |-> s]
       ELSE [result |-> Ok,
             storage |-> storage_insert_block_unchecked(s, block,
                 Unwrap(storage_total_difficulty_by_hash(s, Hash(head)))
                     + block.difficulty)]

\* insert_block storing the candidate without validating it against the head.
insert_block_result_unvalidated(s, spec, block) ==
    LET head == Unwrap(last_block(s))
    IN [result |-> Ok,
        storage |-> storage_insert_block_unchecked(s, block,
            Unwrap(storage_total_difficulty_by_hash(s, Hash(head)))
                + block.difficulty)]

insert_block_result(s, spec, block) ==
    IF ~IsSome(last_block(s))
    THEN [result |-> Panic("Block must exist"), storage |-> s]
    ELSE LET head == Unwrap(last_block(s))
             valid == validate_next_block(spec, head, block)
             previous_total_difficulty ==
                 storage_total_difficulty_by_hash(s, Hash(head))
         IN IF valid.kind # "Ok"
            THEN [result |-> valid, storage |-> s]
            ELSE IF ~IsSome(previous_total_difficulty)
            THEN [result |-> Panic("Must exist as its block is stored"),
                  storage |-> s]
            ELSE [result |-> Ok,
                  storage |-> storage_insert_block_unchecked(s, block,
                      Unwrap(previous_total_difficulty) + block.difficulty)]

insert_block(block) ==
    LET r == insert_block_result(storage, spec_id, block)
    IN /\ created
       /\ r.result.kind = "Ok" => block.number <= MaxTail
       /\ storage' = r.storage
       /\ last_op' = [NoOp EXCEPT !.op = "insert_block",
                                  !.number = block.number,
                                  !.returned = IF r.result.kind = "Ok"
                                               THEN Some(block) ELSE None,
                                  !.result = r.result]
       /\ UNCHANGED <<created, chain_id, spec_id>>

\* reserve_blocks treating a single additional block like none.
reserve_blocks_result_skip_one(s, spec, additional, interval) ==
    IF additional <= 1
    THEN [result |-> Ok, storage |-> s]
    ELSE LET head == Unwrap(last_block(s))
         IN [result |-> Ok,
             storage |-> storage_reserve_blocks(s, additional, interval,
                             head.base_fee_per_gas, head.state_root,
                             Unwrap(storage_total_difficulty_by_hash(s, Hash(head))),
                             spec)]

\* reserve_blocks reserving one block when asked for none.
reserve_blocks_result_min_one(s, spec, additional, interval) ==
    LET head == Unwrap(last_block(s))
    IN [result |-> Ok,
        storage |-> storage_reserve_blocks(s,
                        IF additional = 0 THEN 1 ELSE additional, interval,
                        head.base_fee_per_gas, head.state_root,
                        Unwrap(storage_total_difficulty_by_hash(s, Hash(head))),
                        spec)]

\* reserve_blocks handing the store the values of the highest committed
\* block, overlooking a virtual head above it.
reserve_blocks_result_committed_head(s, spec, additional, interval) ==
    IF additional = 0
    THEN [result |-> Ok, storage |-> s]
    ELSE LET committed == DOMAIN s.number_to_block
             head == s.number_to_block[CHOOSE n \in committed :
                                          \A m \in committed : m <= n]
         IN [result |-> Ok,
             storage |-> storage_reserve_blocks(s, additional, interval,
                             head.base_fee_per_gas, head.state_root,
                             Unwrap(storage_total_difficulty_by_hash(s, Hash(head))),
                             spec)]

reserve_blocks_result(s, spec, additional, interval) ==
    IF additional = 0
    THEN [result |-> Ok, storage |-> s]
    ELSE IF ~IsSome(last_block(s))
    THEN [result |-> Panic("Block must exist"), storage |-> s]
    ELSE LET head == Unwrap(last_block(s))
             previous_total_difficulty ==
                 storage_total_difficulty_by_hash(s, Hash(head))
         IN IF ~IsSome(previous_total_difficulty)
            THEN [result |-> Panic("Must exist as its block is stored"),
                  storage |-> s]
            ELSE [result |-> Ok,
                  storage |-> storage_reserve_blocks(s, additional, interval,
                                  head.base_fee_per_gas, head.state_root,
                                  Unwrap(previous_total_difficulty), spec)]

reserve_blocks(additional, interval) ==
    LET r == reserve_blocks_result(storage, spec_id, additional, interval)
    IN /\ created
       /\ storage.last_block_number + additional <= MaxTail
       /\ storage' = r.storage
       /\ last_op' = [NoOp EXCEPT !.op = "reserve_blocks",
                                  !.number = additional,
                                  !.interval = interval,
                                  !.result = r.result]
       /\ UNCHANGED <<created, chain_id, spec_id>>

\* revert_to_block with the store's success flag read the wrong way round.
revert_to_block_result_inverted(s, block_number) ==
    LET reverted == storage_revert_to_block(s, block_number)
    IN IF ~reverted.ok
       THEN [result |-> Ok, storage |-> reverted.storage]
       ELSE [result |-> Err("UnknownBlockNumber"), storage |-> reverted.storage]

\* revert_to_block clamping a target above the tail to the tail.
revert_to_block_result_clamped(s, block_number) ==
    LET target == IF block_number > s.last_block_number
                  THEN s.last_block_number ELSE block_number
        reverted == storage_revert_to_block(s, target)
    IN IF reverted.ok
       THEN [result |-> Ok, storage |-> reverted.storage]
       ELSE [result |-> Err("UnknownBlockNumber"), storage |-> reverted.storage]

\* revert_to_block reverting to the block below the target.
revert_to_block_result_one_below(s, block_number) ==
    LET target == IF block_number = 0 THEN 0 ELSE block_number - 1
        reverted == storage_revert_to_block(s, target)
    IN IF reverted.ok
       THEN [result |-> Ok, storage |-> reverted.storage]
       ELSE [result |-> Err("UnknownBlockNumber"), storage |-> reverted.storage]

revert_to_block_result(s, block_number) ==
    LET reverted == storage_revert_to_block(s, block_number)
    IN IF reverted.ok
       THEN [result |-> Ok, storage |-> reverted.storage]
       ELSE [result |-> Err("UnknownBlockNumber"), storage |-> reverted.storage]

revert_to_block(block_number) ==
    LET r == revert_to_block_result(storage, block_number)
    IN /\ created
       /\ storage' = r.storage
       /\ last_op' = [NoOp EXCEPT !.op = "revert_to_block",
                                  !.number = block_number,
                                  !.result = r.result]
       /\ UNCHANGED <<created, chain_id, spec_id>>

(***************************************************************************)
(* Candidate blocks a caller hands to insert_block.  Well-formed ones      *)
(* follow the head and vary in difficulty and transactions; malformed ones *)
(* have a wrong number, a wrong parent hash, or the other withdrawals      *)
(* presence, in every combination.                                         *)
(***************************************************************************)
Candidate(s, n, p, d, txs, w) ==
    LET head == Unwrap(last_block(s))
    IN NewBlock([DefaultHeader EXCEPT
                    !.number = n,
                    !.parent_hash = p,
                    !.state_root = 100 + n,
                    !.difficulty = d,
                    !.timestamp = head.timestamp + 1,
                    !.base_fee = IF IsSome(head.base_fee_per_gas)
                                 THEN Some(Unwrap(head.base_fee_per_gas) + 1)
                                 ELSE None],
                txs, w)

CandidateBlocks(s, spec) ==
    IF ~IsSome(last_block(s)) THEN {} ELSE
    LET head == Unwrap(last_block(s))
        tail == s.last_block_number
        withdrawals == IF spec >= SHANGHAI THEN Some(<<>>) ELSE None
    IN {Candidate(s, tail + 1, Hash(head), d, txs, withdrawals) :
            d \in Difficulties, txs \in TxLists}
       \cup
       {Candidate(s, n, p, 0, <<>>, w) :
            n \in {tail, tail + 1, tail + 2},
            p \in {Hash(head), ZeroHash},
            w \in {None, Some(<<>>)}}

\* Genesis blocks a caller hands to with_genesis_block and
\* with_genesis_block_unchecked: number zero or not,
\* with or without withdrawals, of either genesis difficulty.
GenesisBlocks ==
    {NewBlock([DefaultHeader EXCEPT
                  !.number = n,
                  !.state_root = state_root,
                  !.difficulty = d,
                  !.gas_limit = gas_limit,
                  !.timestamp = Unwrap(timestamp),
                  !.extra_data = EXTRA_DATA],
              <<>>, w) :
        n \in {0, 1}, state_root \in StateRoots, d \in {0, 1},
        gas_limit \in GasLimits, timestamp \in GenesisTimestamps \ {None},
        w \in {None, Some(<<>>)}}

(***************************************************************************)
(* Construction: every call of LocalBlockchain::new, with_genesis_block    *)
(* and with_genesis_block_unchecked over the input domains, starting with  *)
(* no chain.                                                               *)
(***************************************************************************)
InitNew ==
    /\ created = FALSE
    /\ storage = EmptyStorage
    /\ chain_id = 0
    /\ spec_id = 0
    /\ last_op = NoOp

NextNew ==
    \/ \E checkpoint \in CheckpointResults, state_root \in StateRootResults,
          chain \in ChainIds, spec \in AllSpecIds, gas_limit \in GasLimits,
          timestamp \in GenesisTimestamps, now \in SystemTimes,
          prevrandao \in Prevrandaos, base_fee \in BaseFees :
            new(checkpoint, state_root, chain, spec, gas_limit, timestamp,
                now, prevrandao, base_fee)
    \/ \E chain \in ChainIds, spec \in AllSpecIds,
          genesis_block \in GenesisBlocks :
            with_genesis_block(chain, spec, genesis_block)
    \/ \E chain \in ChainIds, spec \in AllSpecIds,
          genesis_block \in GenesisBlocks :
            with_genesis_block_unchecked_call(chain, spec, genesis_block)

SpecNew == InitNew /\ [][NextNew]_vars

(***************************************************************************)
(* Operation: the chains LocalBlockchain::new constructs, one per protocol *)
(* version, followed by any sequence of insert_block, reserve_blocks and   *)
(* revert_to_block calls.                                                  *)
(***************************************************************************)
\* The call of new that constructs the chain of protocol version spec.
ConstructedChain(spec) ==
    new_result(StateOk(5), StateOk(5), 31337, spec, 30, Some(10), 20, Some(7), Some(9))

Init ==
    \E spec \in SpecIds :
        LET r == ConstructedChain(spec)
        IN /\ created = TRUE
           /\ storage = Unwrap(r.chain).storage
           /\ chain_id = Unwrap(r.chain).chain_id
           /\ spec_id = Unwrap(r.chain).spec_id
           /\ last_op = [NoOp EXCEPT
                            !.op = "new", !.spec_id = spec,
                            !.timestamp = Some(10),
                            !.prevrandao = Some(7), !.base_fee = Some(9),
                            !.checkpoint = Some(StateOk(5)),
                            !.state_root = Some(StateOk(5)),
                            !.calls = r.calls, !.result = r.result]

Next ==
    \/ \E block \in CandidateBlocks(storage, spec_id) : insert_block(block)
    \/ \E additional \in 0..MaxTail, interval \in Intervals :
            reserve_blocks(additional, interval)
    \/ \E block_number \in 0..(MaxTail + 1) : revert_to_block(block_number)

Spec == Init /\ [][Next]_vars

(***************************************************************************)
(* Properties.                                                             *)
(***************************************************************************)
HeadIsVirtual == last_block_number \notin DOMAIN storage.number_to_block

\* C1: in every reachable state, insert_block of a candidate whose number
\* is not tail + 1 fails with InvalidBlockNumber{actual = the candidate's
\* number, expected = tail + 1}, whatever else is wrong with the candidate
\* and whether the head is a committed or a virtual block; and a recorded
\* insert_block that failed on such a number reports exactly that error.
C1_InvalidBlockNumber ==
    created =>
        /\ \A block \in CandidateBlocks(storage, spec_id) :
               block.number # last_block_number + 1 =>
                   insert_block_result(storage, spec_id, block).result
                       = InvalidBlockNumber(block.number, last_block_number + 1)
        /\ (/\ last_op.op = "insert_block"
            /\ last_op.result.kind # "Ok"
            /\ last_op.number # last_block_number + 1)
               => last_op.result
                      = InvalidBlockNumber(last_op.number, last_block_number + 1)

\* C1 witness: a wrong-numbered insert_block was rejected with
\* InvalidBlockNumber while the head is a virtual block of a reserved range.
C1_Witness ==
    /\ created
    /\ HeadIsVirtual
    /\ last_op.op = "insert_block"
    /\ last_op.number # last_block_number + 1
    /\ last_op.result = InvalidBlockNumber(last_op.number, last_block_number + 1)

RECURSIVE SumDifficulty(_, _)
\* The difficulties of blocks 0..n added up.
SumDifficulty(s, n) ==
    IF n < 0 THEN 0
    ELSE (IF IsSome(storage_block_by_number(s, n))
          THEN Unwrap(storage_block_by_number(s, n)).difficulty ELSE 0)
         + SumDifficulty(s, n - 1)

TotalDifficultyAt(n) == total_difficulty_by_hash(Unwrap(block_hash(n)))

ReserveContract(after, h, T, count, interval) ==
    /\ after.last_block_number = h + count
    /\ \A k \in 1..count :
           LET b == storage_block_by_number(after, h + k)
           IN /\ IsSome(b)
              /\ Unwrap(b).number = h + k
              /\ Unwrap(b).timestamp = T + k * interval

\* C3: reserve_blocks(count, interval) with count > 0, called when the tail
\* is h and the head has timestamp T, succeeds, sets the tail to h + count,
\* and block_by_number(h + k) is a block with number h + k and timestamp
\* T + k * interval for every k in 1..count.  Stated of the call made in
\* any reachable state with any count in 1..5, and of the state a
\* reserve_blocks call has just left behind.
C3_ReserveBlocks ==
    [](created =>
          /\ \A count \in 1..5, interval \in Intervals :
                 LET r == reserve_blocks_result(storage, spec_id, count, interval)
                 IN /\ r.result = Ok
                    /\ ReserveContract(r.storage, last_block_number,
                                       Unwrap(last_block(storage)).timestamp,
                                       count, interval)
          /\ (last_op.op = "reserve_blocks" /\ last_op.number > 0) =>
                 /\ last_op.result = Ok
                 /\ last_block_number >= last_op.number
                 /\ ReserveContract(storage,
                        last_block_number - last_op.number,
                        Unwrap(block_by_number(last_block_number
                                               - last_op.number)).timestamp,
                        last_op.number, last_op.interval))

\* C3 witness: reserve_blocks(2, 12) at height 0 just succeeded: the tail is
\* 2 and block 2 carries the genesis timestamp plus 24.
C3_Witness ==
    /\ created
    /\ last_op.op = "reserve_blocks"
    /\ last_op.number = 2
    /\ last_op.interval = 12
    /\ last_op.result = Ok
    /\ last_block_number = 2
    /\ DOMAIN storage.number_to_block = {0}
    /\ Unwrap(block_by_number(2)).timestamp
           = Unwrap(block_by_number(0)).timestamp + 24

\* The blocks, committed or virtual, with a number above t in store s.
BlocksAbove(s, t) ==
    {Unwrap(storage_block_by_number(s, n)) : n \in (t + 1)..s.last_block_number}

\* C4: revert_to_block(t) with 0 <= t <= tail succeeds; afterwards the tail
\* is t, block_by_number(n) and block_hash(n) find nothing for every n > t,
\* and the hashes and transaction hashes of the discarded blocks are no
\* longer resolved by block_by_hash, total_difficulty_by_hash and
\* block_by_transaction_hash.
C4_RevertDiscards ==
    [][(last_op'.op = "revert_to_block"
            /\ last_op'.number <= storage.last_block_number) =>
          /\ last_op'.result = Ok
          /\ storage'.last_block_number = last_op'.number
          /\ \A n \in (last_op'.number + 1)..(MaxTail + 2) :
                 /\ storage_block_by_number(storage', n) = None
                 /\ block_hash(n)' = None
          /\ \A b \in BlocksAbove(storage, last_op'.number) :
                 /\ storage_block_by_hash(storage', Hash(b)) = None
                 /\ storage_total_difficulty_by_hash(storage', Hash(b)) = None
                 /\ \A h \in Range(b.transactions) :
                        storage_block_by_transaction_hash(storage', h) = None]_vars

\* C4 witness: a revert_to_block(1) succeeded on a chain whose tail was
\* above 1; block 1 survives as the head and block 2 is not found.
C4_Witness ==
    /\ created
    /\ last_op.op = "revert_to_block"
    /\ last_op.number = 1
    /\ last_op.result = Ok
    /\ last_block_number = 1
    /\ HeadIsVirtual
    /\ Len(storage.reservations) = 1
    /\ storage.reservations[1].last_number = 1
    /\ block_by_number(2) = None

\* Every lookup of the facade on store s: by number, hash and transaction
\* hash, and the total difficulties, over the hashes known to s or t.
Lookups(s, t) ==
    LET hashes == DOMAIN s.hash_to_block \cup DOMAIN t.hash_to_block
                  \cup {Hash(Unwrap(storage_block_by_number(s, n))) :
                            n \in 0..s.last_block_number}
                  \cup {Hash(Unwrap(storage_block_by_number(t, n))) :
                            n \in 0..t.last_block_number}
    IN [tail |-> s.last_block_number,
        by_number |-> [n \in 0..(MaxTail + 2) |-> storage_block_by_number(s, n)],
        by_hash |-> [h \in hashes |-> storage_block_by_hash(s, h)],
        by_transaction_hash |->
            [h \in TxHashes |-> storage_block_by_transaction_hash(s, h)],
        total_difficulty |->
            [h \in hashes |-> storage_total_difficulty_by_hash(s, h)]]

\* C5: revert_to_block(t) with t above the tail fails with
\* UnknownBlockNumber and leaves the tail, every number, hash and
\* transaction-hash lookup and every total difficulty unchanged.
C5_RevertUnknown ==
    [][(last_op'.op = "revert_to_block"
            /\ last_op'.number > storage.last_block_number) =>
          /\ last_op'.result = Err("UnknownBlockNumber")
          /\ Lookups(storage', storage) = Lookups(storage, storage')
          /\ storage' = storage]_vars

\* C5 witness: revert_to_block of a number above the tail was refused on a
\* chain that holds committed and reserved blocks.
C5_Witness ==
    /\ created
    /\ last_op.op = "revert_to_block"
    /\ last_op.number > last_block_number
    /\ last_op.result = Err("UnknownBlockNumber")
    /\ last_block_number >= 1
    /\ storage.reservations # <<>>
    /\ storage.transaction_hash_to_block # <<>>

\* C6: reserve_blocks(0, interval) returns success in every reachable state
\* and for every interval, and changes nothing: tail, lookups, reserved
\* ranges and total difficulties are the same before and after.
C6_ReserveNothing ==
    [][(last_op'.op = "reserve_blocks" /\ last_op'.number = 0) =>
          /\ last_op'.result = Ok
          /\ Lookups(storage', storage) = Lookups(storage, storage')
          /\ storage'.reservations = storage.reservations
          /\ storage' = storage
          /\ UNCHANGED <<created, chain_id, spec_id>>]_vars

\* C6 witness: reserve_blocks(0, 12) returned success on a chain that holds
\* a reserved range.
C6_Witness ==
    /\ created
    /\ last_op.op = "reserve_blocks"
    /\ last_op.number = 0
    /\ last_op.interval = 12
    /\ last_op.result = Ok
    /\ storage.reservations # <<>>

\* The committed blocks of the chain that contain transaction hash h.
BlocksContaining(h) ==
    {storage.number_to_block[n] :
        n \in {k \in DOMAIN storage.number_to_block :
                  h \in Range(storage.number_to_block[k].transactions)}}

\* C7: after any sequence of insert_block, reserve_blocks and
\* revert_to_block calls, block_by_transaction_hash(h) returns a block of
\* the chain that contains h for every transaction hash h present in a
\* committed block of the chain, and not found for a hash in no block.
C7_TransactionLookup ==
    created =>
        \A h \in TxHashes :
            IF BlocksContaining(h) = {}
            THEN block_by_transaction_hash(h) = None
            ELSE /\ IsSome(block_by_transaction_hash(h))
                 /\ Unwrap(block_by_transaction_hash(h)) \in BlocksContaining(h)

\* A call of new without the named value, with a state handle that works.
NewWithout(field) ==
    /\ last_op.op = "new"
    /\ last_op.state_ok
    /\ last_op[field] = None

NoChain == ~created /\ storage = EmptyStorage

\* new read the clock, the timestamp being absent, and it read before the
\* Unix epoch.
ClockBeforeEpoch == IsSome(last_op.clock) /\ Unwrap(last_op.clock) < 0

\* C8: for every protocol version >= Merge and every choice of
\* the other arguments (timestamp and base fee present or absent), with a
\* state handle whose calls succeed, new called without a prevrandao value
\* fails with MissingPrevrandao and constructs no chain.
C8_MissingPrevrandao_Always ==
    (NewWithout("prevrandao") /\ last_op.spec_id >= MERGE) =>
        /\ last_op.result = Err("MissingPrevrandao")
        /\ NoChain

\* C9 as claimed: for every protocol version >= London and every choice of
\* the other arguments (prevrandao present or absent), with a state handle
\* whose calls succeed, new called without a base fee fails with
\* MissingBaseFee and constructs no chain.
C9_MissingBaseFee_Always ==
    (NewWithout("base_fee") /\ last_op.spec_id >= LONDON) =>
        /\ last_op.result = Err("MissingBaseFee")
        /\ NoChain

\* C9 amended: for every protocol version >= London, with a state handle
\* whose calls succeed, new called without a base fee constructs no chain
\* and fails with MissingBaseFee, except that it panics with "Current time
\* must be after unix epoch" when the timestamp is absent and the system
\* clock reads before the Unix epoch, and otherwise fails with
\* MissingPrevrandao when the version is >= Merge and the prevrandao value
\* is absent as well.
C9_MissingBaseFee ==
    (NewWithout("base_fee") /\ last_op.spec_id >= LONDON) =>
        /\ NoChain
        /\ last_op.result =
               IF ClockBeforeEpoch
               THEN Panic("Current time must be after unix epoch")
               ELSE IF last_op.spec_id >= MERGE /\ last_op.prevrandao = None
               THEN Err("MissingPrevrandao")
               ELSE Err("MissingBaseFee")

\* C9 witness: new at the Merge with a prevrandao value and no base fee
\* failed with MissingBaseFee.
C9_Witness ==
    /\ NewWithout("base_fee")
    /\ last_op.spec_id = MERGE
    /\ last_op.prevrandao # None
    /\ last_op.result = Err("MissingBaseFee")
    /\ NoChain

\* C10: every genesis block of a successful new has number 0, gas_used 0, no
\* transactions or receipts, a withdrawals list present and empty iff the
\* version is >= Shanghai, a base fee (the caller's) iff it is >= London,
\* and difficulty 0, the caller's prevrandao as mix value and a zero nonce
\* iff it is >= Merge, otherwise difficulty 1, a zero mix hash and the
\* fixed non-zero nonce; the chain's initial total difficulty is the
\* genesis difficulty.
C10_Genesis ==
    (created /\ last_op.op = "new") =>
        /\ last_op.result = Ok
        /\ spec_id = last_op.spec_id
        /\ last_block_number = 0
        /\ IsSome(block_by_number(0))
        /\ LET genesis == Unwrap(block_by_number(0))
           IN /\ genesis.number = 0
              /\ genesis.gas_used = 0
              /\ genesis.transactions = <<>>
              /\ genesis.receipts = <<>>
              /\ genesis.withdrawals =
                     (IF spec_id >= SHANGHAI THEN Some(<<>>) ELSE None)
              /\ IsSome(genesis.withdrawals_root) <=> spec_id >= SHANGHAI
              /\ genesis.base_fee_per_gas =
                     (IF spec_id >= LONDON THEN last_op.base_fee ELSE None)
              /\ IsSome(genesis.base_fee_per_gas) <=> spec_id >= LONDON
              /\ genesis.difficulty = 0 <=> spec_id >= MERGE
              /\ spec_id >= MERGE =>
                     /\ genesis.mix_hash = Unwrap(last_op.prevrandao)
                     /\ genesis.nonce = B64Zero
              /\ spec_id < MERGE =>
                     /\ genesis.difficulty = 1
                     /\ genesis.mix_hash = 0
                     /\ genesis.nonce = GenesisNonce
                     /\ genesis.nonce # B64Zero
              /\ total_difficulty_by_hash(Hash(genesis))
                     = Some(genesis.difficulty)

\* C10 witness: new succeeded at the Merge, below Shanghai: the genesis has
\* no withdrawals, a base fee, difficulty 0 and the caller's prevrandao 7.
C10_Witness ==
    /\ created
    /\ last_op.op = "new"
    /\ spec_id = MERGE
    /\ Unwrap(block_by_number(0)).withdrawals = None
    /\ Unwrap(block_by_number(0)).mix_hash = 7
    /\ Unwrap(block_by_number(0)).base_fee_per_gas = Some(9)
    /\ total_difficulty_by_hash(Unwrap(block_hash(0))) = Some(0)

\* C11: with_genesis_block accepts a caller-built genesis only if its number
\* is 0 and its withdrawals are present exactly when the version is
\* >= Shanghai; a non-zero number fails with InvalidBlockNumber{actual,
\* expected = 0} (also when the withdrawals do not match), a withdrawals
\* mismatch fails with MissingWithdrawals, and no chain is created on
\* failure.
C11_WithGenesisBlock ==
    last_op.op = "with_genesis_block" =>
        IF last_op.number # 0
        THEN last_op.result = InvalidBlockNumber(last_op.number, 0) /\ NoChain
        ELSE IF IsSome(last_op.withdrawals_root) # (last_op.spec_id >= SHANGHAI)
        THEN last_op.result = Err("MissingWithdrawals") /\ NoChain
        ELSE last_op.result = Ok /\ created

\* C12: block_supports_spec(number, spec) is true exactly when spec is at
\* or below the version the chain was constructed with, for every number,
\* also above the tail and inside a reserved range, and no call of
\* insert_block, reserve_blocks or revert_to_block changes the answer.
C12_BlockSupportsSpec ==
    [][/\ last_op.op = "new" => spec_id = last_op.spec_id
       /\ \A number \in 0..(MaxTail + 2), spec \in AllSpecIds :
              /\ block_supports_spec(number, spec) <=> spec <= spec_id
              /\ block_supports_spec(number, spec)'
                     <=> block_supports_spec(number, spec)]_vars

\* C12 witness: on a Merge chain whose tail lies in a reserved range, London
\* is supported at a number above the tail and Shanghai is not supported at
\* the reserved number 1.
C12_Witness ==
    /\ created
    /\ spec_id = MERGE
    /\ last_op.op = "reserve_blocks"
    /\ last_block_number = MaxTail
    /\ IsSome(ReservationOf(storage, 1))
    /\ block_supports_spec(MaxTail + 2, LONDON)
    /\ ~block_supports_spec(1, SHANGHAI)

\* The numbers of the committed blocks of store s.
CommittedNumbers(s) == DOMAIN s.number_to_block

\* C13: the chain is contiguous from 0 to the tail: for every n in 0..tail
\* block_by_number(n) is a block whose header number is n and block_hash(n)
\* is its hash; for every n above the tail block_by_number(n) finds nothing
\* and block_hash(n) fails with UnknownBlockNumber.  A reserved range holds
\* no committed number, and a range reserved now starts above every block
\* committed so far.
C13_Contiguity ==
    created =>
        /\ \A n \in 0..last_block_number :
               /\ IsSome(block_by_number(n))
               /\ Unwrap(block_by_number(n)).number = n
               /\ block_hash(n) = Some(Hash(Unwrap(block_by_number(n))))
        /\ \A n \in (last_block_number + 1)..(MaxTail + 2) :
               /\ block_by_number(n) = None
               /\ block_hash(n) = None
        /\ \A i \in 1..Len(storage.reservations) :
               LET r == storage.reservations[i]
               IN /\ 1 <= r.first_number
                  /\ r.first_number <= r.last_number
                  /\ r.last_number <= last_block_number
                  /\ CommittedNumbers(storage)
                         \cap (r.first_number..r.last_number) = {}
        /\ \A count \in 1..2, interval \in Intervals :
               LET after == reserve_blocks_result(storage, spec_id, count,
                                                  interval).storage
                   r == after.reservations[Len(after.reservations)]
               IN /\ Len(after.reservations) = Len(storage.reservations) + 1
                  /\ \A n \in CommittedNumbers(storage) : n < r.first_number

\* C13 witness: a chain of the genesis, a reserved block 1 and a committed
\* block 2 inserted on top of it; number 3 is unknown.
C13_Witness ==
    /\ created
    /\ last_block_number = 2
    /\ CommittedNumbers(storage) = {0, 2}
    /\ IsSome(ReservationOf(storage, 1))
    /\ Unwrap(block_by_number(1)).number = 1
    /\ block_by_number(3) = None
    /\ block_hash(3) = None

\* C14: over the numbers 0..tail the mapping from number to block hash is
\* one to one: no two numbers of the chain, committed or reserved, have the
\* same hash (also two virtual blocks reserved with interval 0), and
\* block_by_hash(block_hash(n)) returns the block with number n.
C14_NumberHashBijection ==
    created =>
        /\ \A n \in 0..last_block_number :
               /\ IsSome(block_hash(n))
               /\ IsSome(block_by_hash(Unwrap(block_hash(n))))
               /\ Unwrap(block_by_hash(Unwrap(block_hash(n)))).number = n
               /\ block_by_hash(Unwrap(block_hash(n))) = block_by_number(n)
        /\ Cardinality({block_hash(n) : n \in 0..last_block_number})
               = last_block_number + 1

\* C14 witness: two virtual blocks of one range reserved with interval 0
\* have the same timestamp and different hashes, and the hash of block 2
\* leads back to block 2.
C14_Witness ==
    /\ created
    /\ last_block_number = 2
    /\ CommittedNumbers(storage) = {0}
    /\ Len(storage.reservations) = 1
    /\ storage.reservations[1].interval = 0
    /\ Unwrap(block_by_number(1)).timestamp = Unwrap(block_by_number(2)).timestamp
    /\ block_hash(1) # block_hash(2)
    /\ Unwrap(block_by_hash(Unwrap(block_hash(2)))).number = 2

\* What the virtual blocks h + 1 .. h + count of store `after` carry when
\* they were reserved on top of block `head` with total difficulty `td`.
VirtualContract(after, head, td, h, count) ==
    \A k \in 1..count :
        LET b == storage_block_by_number(after, h + k)
        IN /\ IsSome(b)
           /\ Unwrap(b).base_fee_per_gas = head.base_fee_per_gas
           /\ Unwrap(b).state_root = head.state_root
           /\ Unwrap(b).difficulty =
                  (IF spec_id >= MERGE THEN 0 ELSE head.difficulty)
           /\ storage_total_difficulty_by_hash(after, Hash(Unwrap(b)))
                  = Some(td + k * Unwrap(b).difficulty)

\* C15: every virtual block carries the base fee and the state root of the
\* block that was the head when its range was reserved (a virtual block
\* itself when ranges are reserved back to back), has difficulty 0 at
\* >= Merge and that head's difficulty below, and the k-th block of the
\* range has the head's total difficulty plus k times that difficulty.
\* Stated of a reserve_blocks call made in any reachable state, and of
\* every reserved range of the chain.
C15_VirtualBlocks ==
    [](created =>
          /\ \A count \in 1..2, interval \in Intervals :
                 VirtualContract(
                     reserve_blocks_result(storage, spec_id, count, interval).storage,
                     Unwrap(last_block(storage)),
                     Unwrap(total_difficulty_by_hash(Hash(Unwrap(last_block(storage))))),
                     last_block_number, count)
          /\ \A i \in 1..Len(storage.reservations) :
                 LET r == storage.reservations[i]
                     head == Unwrap(block_by_number(r.first_number - 1))
                 IN VirtualContract(storage, head,
                        Unwrap(total_difficulty_by_hash(Hash(head))),
                        r.first_number - 1,
                        r.last_number - r.first_number + 1))

\* C15 witness: on a London chain block 2 was reserved on top of the virtual
\* block 1: it carries the genesis base fee and state root passed on by
\* block 1, difficulty 1 and total difficulty 3.
C15_Witness ==
    /\ created
    /\ spec_id = LONDON
    /\ last_block_number = 2
    /\ CommittedNumbers(storage) = {0}
    /\ Len(storage.reservations) = 2
    /\ Unwrap(block_by_number(2)).base_fee_per_gas = Some(9)
    /\ Unwrap(block_by_number(2)).state_root
           = Unwrap(block_by_number(0)).state_root
    /\ Unwrap(block_by_number(2)).difficulty = 1
    /\ TotalDifficultyAt(2) = Some(3)

\* C16: a block present at number n stays the same block, with the same
\* hash, over every call other than a successful revert_to_block(t) with
\* t < n: insert_block and reserve_blocks, failed calls, and a revert that
\* truncates a reserved range in place.  Block 0 is the genesis the chain
\* was constructed with in every reachable state, and revert_to_block(0)
\* succeeds and leaves exactly the constructed chain: the genesis alone.
\* (A call that leaves the store as it was leaves every block as it was.)
C16_Immutable ==
    /\ [](/\ block_by_number(0)
                 = Some(Unwrap(ConstructedChain(spec_id).chain).storage.number_to_block[0])
          /\ revert_to_block_result(storage, 0)
                 = [result |-> Ok,
                    storage |-> Unwrap(ConstructedChain(spec_id).chain).storage])
    /\ [][storage' # storage =>
             \A n \in 0..storage.last_block_number :
                 ~(/\ last_op'.op = "revert_to_block"
                   /\ last_op'.result = Ok
                   /\ last_op'.number < n)
                    => LET before == storage_block_by_number(storage, n)
                           after == storage_block_by_number(storage', n)
                       IN /\ IsSome(before)
                          /\ after = before
                          /\ Hash(Unwrap(after)) = Hash(Unwrap(before))]_vars

\* C16 witness: revert_to_block(1) cut the reserved range 1..2 down to block
\* 1, which is still the virtual block it was, above the genesis.
C16_Witness ==
    /\ created
    /\ last_op.op = "revert_to_block"
    /\ last_op.number = 1
    /\ last_op.result = Ok
    /\ last_block_number = 1
    /\ CommittedNumbers(storage) = {0}
    /\ storage.reservations # <<>>
    /\ storage.reservations[1].first_number = 1
    /\ storage.reservations[1].interval = 12
    /\ Unwrap(block_by_number(1)).timestamp
           = Unwrap(block_by_number(0)).timestamp + 12

\* C17: the tail moves in these ways only: a successful insert_block
\* raises it by one and the inserted block is then the last block; a
\* reserve_blocks(count) succeeds and raises it by count; a successful
\* revert_to_block(t) sets it to t, which is at most the old tail; a failed
\* call leaves it alone; only revert_to_block lowers it.  Right after a
\* revert to t an inserted block has number t + 1 and a reserved range
\* starts at t + 1.
C17_TailMoves ==
    [][LET t == storage.last_block_number
           t2 == storage'.last_block_number
           op == last_op'
           after_revert == last_op.op = "revert_to_block" /\ last_op.result = Ok
       IN /\ (op.op = "insert_block" /\ op.result = Ok) =>
                 /\ t2 = t + 1
                 /\ IsSome(op.returned)
                 /\ Unwrap(op.returned).number = t + 1
                 /\ storage_block_by_number(storage', t2) = op.returned
                 /\ after_revert => Unwrap(op.returned).number = last_op.number + 1
          /\ (op.op = "insert_block" /\ op.result # Ok) => t2 = t
          /\ op.op = "reserve_blocks" =>
                 /\ op.result = Ok
                 /\ t2 = t + op.number
                 /\ (after_revert /\ op.number > 0) =>
                        storage'.reservations[Len(storage'.reservations)].first_number
                            = last_op.number + 1
          /\ (op.op = "revert_to_block" /\ op.result = Ok) =>
                 /\ t2 = op.number
                 /\ t2 <= t
          /\ (op.op = "revert_to_block" /\ op.result # Ok) => t2 = t
          /\ t2 < t => (op.op = "revert_to_block" /\ op.result = Ok)]_vars

\* C17 witness: insert_block just succeeded with block 2 on top of a virtual
\* block 1; the tail is 2 and the last block is the block returned.
C17_Witness ==
    /\ created
    /\ last_op.op = "insert_block"
    /\ last_op.result = Ok
    /\ last_op.number = 2
    /\ last_block_number = 2
    /\ last_block(storage) = last_op.returned
    /\ 1 \notin CommittedNumbers(storage)

\* C18: in every reachable state and for every candidate, when
\* validate_next_block against the current head rejects the candidate,
\* insert_block returns exactly that error and the store is as before: tail,
\* last block, the number, hash and transaction-hash indices, the reserved
\* ranges and the total difficulties; the store changes only when the
\* validation has succeeded.
C18_RejectedInsert ==
    [](created =>
          \A block \in CandidateBlocks(storage, spec_id) :
              LET valid == validate_next_block(spec_id,
                               Unwrap(last_block(storage)), block)
                  r == insert_block_result(storage, spec_id, block)
              IN /\ valid # Ok =>
                        /\ r.result = valid
                        /\ r.storage = storage
                        /\ r.storage.last_block_number = last_block_number
                        /\ last_block(r.storage) = last_block(storage)
                        /\ r.storage.number_to_block = storage.number_to_block
                        /\ r.storage.hash_to_block = storage.hash_to_block
                        /\ r.storage.transaction_hash_to_block
                               = storage.transaction_hash_to_block
                        /\ r.storage.hash_to_total_difficulty
                               = storage.hash_to_total_difficulty
                 /\ valid = Ok \/ r.storage = storage)

\* C18 witness: insert_block was refused for a wrong parent hash on a chain
\* that holds a committed block with transactions below a reserved range.
C18_Witness ==
    /\ created
    /\ last_op.op = "insert_block"
    /\ last_op.result = Err("InvalidParentHash")
    /\ last_op.returned = None
    /\ storage.transaction_hash_to_block # <<>>
    /\ HeadIsVirtual
    /\ last_block_number = 2

\* C19: in every state reachable by insert_block, reserve_blocks and
\* revert_to_block from a constructed chain, last_block finds a block at
\* last_block_number and a total difficulty is known for its hash, whether
\* the head is committed, virtual, or what a revert left of a reserved
\* range; so no call made has failed an assertion, and a reserve_blocks
\* call made next does not either.
C19_NoAssertionFails ==
    created =>
        /\ IsSome(last_block(storage))
        /\ Unwrap(last_block(storage)).number = last_block_number
        /\ IsSome(total_difficulty_by_hash(Hash(Unwrap(last_block(storage)))))
        /\ last_op.result.kind # "Panic"
        /\ \A count \in 0..1, interval \in Intervals :
               reserve_blocks_result(storage, spec_id, count, interval).result.kind
                   # "Panic"

\* C19 witness: reserve_blocks(1, 0) just succeeded on top of a head that
\* was itself a virtual block; the new head is virtual and has a total
\* difficulty.
C19_Witness ==
    /\ created
    /\ last_op.op = "reserve_blocks"
    /\ last_op.number = 1
    /\ last_op.interval = 0
    /\ last_op.result = Ok
    /\ last_block_number = 2
    /\ Len(storage.reservations) = 2
    /\ HeadIsVirtual
    /\ IsSome(total_difficulty_by_hash(Hash(Unwrap(last_block(storage)))))

\* C20: new calls the state handle's checkpoint first and state_root
\* second, before it looks at prevrandao and base fee: when checkpoint fails
\* the result is State with checkpoint's error and state_root is not
\* called; when state_root fails the result is State with its error, also
\* when prevrandao or base fee are missing; and a call that fails with
\* MissingPrevrandao or MissingBaseFee has made both calls, so the
\* checkpoint is established.  No chain is constructed in any of these.
C20_StateCallsFirst ==
    last_op.op = "new" =>
        LET checkpoint == Unwrap(last_op.checkpoint)
            state_root == Unwrap(last_op.state_root)
        IN /\ last_op.calls # <<>>
           /\ last_op.calls[1] = "checkpoint"
           /\ ~checkpoint.ok =>
                  /\ last_op.result = StateErr(checkpoint.err)
                  /\ last_op.calls = <<"checkpoint">>
                  /\ ~created
           /\ (checkpoint.ok /\ ~state_root.ok) =>
                  /\ last_op.result = StateErr(state_root.err)
                  /\ last_op.calls = <<"checkpoint", "state_root">>
                  /\ ~created
           /\ last_op.result \in {Err("MissingPrevrandao"), Err("MissingBaseFee")} =>
                  /\ checkpoint.ok
                  /\ state_root.ok
                  /\ last_op.calls = <<"checkpoint", "state_root">>
                  /\ ~created

\* C20 witness: new at Shanghai with neither prevrandao nor base fee, a
\* checkpoint that succeeded and a state_root that failed with E2, returned
\* State(E2) after both calls.
C20_Witness ==
    /\ last_op.op = "new"
    /\ last_op.spec_id = SHANGHAI
    /\ last_op.prevrandao = None
    /\ last_op.base_fee = None
    /\ Unwrap(last_op.checkpoint).ok
    /\ Unwrap(last_op.state_root) = StateFail("E2")
    /\ last_op.result = StateErr("E2")
    /\ last_op.calls = <<"checkpoint", "state_root">>
    /\ NoChain

====
